---------------------------- MODULE Spec2Model ----------------------------
(***************************************************************************)
(* A model of the diffusion sampler (train_uncond.py: sample), of the      *)
(* noise schedule, of the EMA updater (audio_diffusion/utils.py:           *)
(* ema_update), of the EMA warmup schedule (EMAWarmup), of the demo        *)
(* callback (train_uncond.py: DemoCallback) and of the timesteps of        *)
(* do_style_transfer.                                                      *)
(*                                                                         *)
(* Real numbers are fixed-point integers: the integer n stands for the     *)
(* real n / Scale.  Every product and quotient is rounded down to that     *)
(* resolution.  A tensor is one such number (batch 1, 1 channel, length 1).*)
(***************************************************************************)
EXTENDS Integers, Sequences, FiniteSets, TLC

\* ======================= bounds of the model ==========================

\* the largest `steps` a caller passes to sample
MaxSteps == 4
\* the number of states of the random source
RngPeriod == 3
\* the largest last_epoch an EMAWarmup is stepped to
MaxEpoch == 10
\* the number of calls of ema_update that are explored
MaxUpdates == 2
\* the number of training epochs whose end is explored
MaxDemoEpochs == 3
\* DemoCallback.demo_steps, the steps of a demo
DemoSteps == 2

\* ===================== fixed-point arithmetic =========================

\* resolution of the arithmetic: n stands for n / Scale
Scale == 10 * 10 * 10

\* math.pi at that resolution
Pi == 3142

\* the result of an operation with no finite value (torch's inf and nan:
\* a division by zero, the root of a negative number); it propagates
NaN == 0 - 2000000000

FAdd(a, b) == IF a = NaN \/ b = NaN THEN NaN ELSE a + b

FSub(a, b) == IF a = NaN \/ b = NaN THEN NaN ELSE a - b

FMul(a, b) == IF a = NaN \/ b = NaN THEN NaN ELSE (a * b) \div Scale

FDiv(a, b) == IF a = NaN \/ b = NaN \/ b = 0 THEN NaN ELSE (a * Scale) \div b

RECURSIVE IsqrtBetween(_, _, _)
\* the largest r in lo..hi with r * r <= n (lo * lo <= n is given)
IsqrtBetween(n, lo, hi) ==
    IF lo >= hi THEN lo
    ELSE LET mid == (lo + hi + 1) \div 2
         IN  IF mid * mid <= n THEN IsqrtBetween(n, mid, hi)
             ELSE IsqrtBetween(n, lo, mid - 1)

\* the square root: of a fixed-point a, sqrt(a / Scale) * Scale
FSqrt(a) ==
    IF a = NaN \/ a < 0 THEN NaN
    ELSE IsqrtBetween(a * Scale, 0, 40000)

FSquare(a) == FMul(a, a)

\* sine and cosine of an angle r in [0, pi/4] (radians), by their series
SinSeries(r) ==
    LET r2 == (r * r) \div Scale
        r3 == (r2 * r) \div Scale
        r5 == (r3 * r2) \div Scale
    IN  r - r3 \div 6 + r5 \div 120

CosSeries(r) ==
    LET r2 == (r * r) \div Scale
        r4 == (r2 * r2) \div Scale
        r6 == (r4 * r2) \div Scale
    IN  Scale - r2 \div 2 + r4 \div 24 - r6 \div 720

HalfPi == Pi \div 2

\* torch.sin and torch.cos of an angle r in [0, pi/2], reduced to [0, pi/4]
Sin(r) ==
    IF r = NaN THEN NaN
    ELSE IF 2 * r <= HalfPi THEN SinSeries(r) ELSE CosSeries(HalfPi - r)

Cos(r) ==
    IF r = NaN THEN NaN
    ELSE IF 2 * r <= HalfPi THEN CosSeries(r) ELSE SinSeries(HalfPi - r)

RECURSIVE AngleBetween(_, _, _, _)
\* the largest angle r in lo..hi with tan r <= y / x, that is
\* sin r * x <= cos r * y (given for lo)
AngleBetween(y, x, lo, hi) ==
    IF lo >= hi THEN lo
    ELSE LET mid == (lo + hi + 1) \div 2
         IN  IF Sin(mid) * x <= Cos(mid) * y
             THEN AngleBetween(y, x, mid, hi)
             ELSE AngleBetween(y, x, lo, mid - 1)

\* torch.atan2(y, x) for y >= 0 and x >= 0, the only quadrant the schedule
\* uses (y is a square and x a square root); atan2(0, 0) = 0
Atan2(y, x) ==
    IF y = NaN \/ x = NaN THEN NaN
    ELSE IF y = 0 THEN 0
    ELSE AngleBetween(y, x, 0, HalfPi)

\* ========================= noise schedule =============================

\* t * math.pi / 2
QuarterTurn(t) == IF t = NaN THEN NaN ELSE FMul(t, Pi) \div 2

get_alphas_sigmas(t) ==
    [alpha |-> Cos(QuarterTurn(t)), sigma |-> Sin(QuarterTurn(t))]

t_to_alpha_sigma(t) ==
    [alpha |-> Cos(QuarterTurn(t)), sigma |-> Sin(QuarterTurn(t))]

alpha_sigma_to_t(alpha, sigma) ==
    LET a == FDiv(Atan2(sigma, alpha), Pi)
    IN  IF a = NaN THEN NaN ELSE a * 2

get_crash_schedule(t) ==
    LET sigma == FSquare(Sin(QuarterTurn(t)))
        alpha == FSqrt(FSub(Scale, FSquare(sigma)))
    IN  alpha_sigma_to_t(alpha, sigma)

\* ============================ sample ==================================

\* the arguments of a call of sample that are explored
StepsValues == 1..MaxSteps

EtaValues == {0, Scale \div 2, Scale}

XValues == {0 - Scale, Scale \div 2, 2 * Scale}

\* the denoising models that are explored: deterministic functions of (x, t)
ModelKinds == {"zero", "echo", "clock"}

\* model(x, t): the opaque callable, returning the predicted velocity
ModelFn(kind, xv, tv) ==
    IF xv = NaN \/ tv = NaN THEN NaN
    ELSE CASE kind = "zero" -> 0
           [] kind = "echo" -> xv
           [] OTHER -> FMul(xv, tv) - tv

\* the random source: a generator whose state decides the next draw
RngStates == 0..(RngPeriod - 1)

\* torch.randn_like(x): the value drawn in state r, and the state after it
Randn(r) == (((r * 7) % 5) - 2) * (Scale \div 2)

RngAfterDraw(r) == (r + 1) % RngPeriod

\* torch.linspace(start, end, n) for n >= 2
Linspace(start, end, n) ==
    [k \in 1..n |-> start + ((end - start) * (k - 1)) \div (n - 1)]

\* s[:-1]
DropLast(s) == SubSeq(s, 1, Len(s) - 1)

\* line 31 without [:-1]: the timestep 0 is kept
SampleGridKeepLast(n) == Linspace(Scale, 0, n + 1)

\* line 31: torch.linspace(1, 0, steps + 1)[:-1]
SampleGrid(n) == DropLast(Linspace(Scale, 0, n + 1))

\* lines 31-33: the working schedule of sample
SampleSchedule(n) ==
    LET g == SampleGrid(n) IN [k \in 1..Len(g) |-> get_crash_schedule(g[k])]

\* line 35, elementwise
SeqAlphas(ts) == [k \in 1..Len(ts) |-> get_alphas_sigmas(ts[k]).alpha]

SeqSigmas(ts) == [k \in 1..Len(ts) |-> get_alphas_sigmas(ts[k]).sigma]

\* line 45 with the sign of the velocity term wrong
PredOfPlus(xv, v, a, s) == FAdd(FMul(xv, a), FMul(v, s))

\* line 45
PredOf(xv, v, a, s) == FSub(FMul(xv, a), FMul(v, s))

\* line 46
EpsOf(xv, v, a, s) == FAdd(FMul(xv, s), FMul(v, a))

\* line 50: whether iteration i of n recombines for a next timestep
HasNextStep(i, n) == i < n - 1

\* lines 53-54
DdimSigma(e, a, s, a1, s1) ==
    FMul(FMul(e, FSqrt(FDiv(FSquare(s1), FSquare(s)))),
         FSqrt(FSub(Scale, FDiv(FSquare(a), FSquare(a1)))))

\* line 55
AdjustedSigma(s1, ddim) == FSqrt(FSub(FSquare(s1), FSquare(ddim)))

\* line 62 without its test: noise is drawn in every recombination
AddsNoiseAlways(e) == TRUE

\* line 62: `if eta:`
AddsNoise(e) == e # 0

\* line 38 one iteration short
LoopCountShort(n) == n - 1

\* line 38: the iterations trange(steps) runs
LoopCount(n) == n

VARIABLES
    steps,      \* sample's argument steps
    eta,        \* sample's argument eta
    model,      \* sample's argument model (one of ModelKinds)
    xin,        \* the caller's x
    t,          \* the working schedule, t[k] for the code's t[k-1]
    alphas,     \* alphas[k] for the code's alphas[k-1]
    sigmas,     \* sigmas[k] for the code's sigmas[k-1]
    x,          \* the local x
    pred,       \* the local pred (unbound before the first iteration)
    i,          \* the iterations completed: the next one is the code's i
    pc,         \* "loop" | "done"
    ret,        \* the value returned
    rng,        \* the state of the random source
    rng0,       \* the state of the random source when sample was called
    queries,    \* the calls the model received, in order: [x, t]
    xs,         \* x at the start, then after each iteration
    run,        \* 1: the first call of sample; 2: the same call made again
    first       \* what the first call did: [xs, ret, queries], and the state
                \* of the random source when it was made

sampleVars ==
    <<steps, eta, model, xin, t, alphas, sigmas, x, pred, i, pc, ret, rng,
      rng0, queries, xs, run, first>>

VARIABLES
    mparams,    \* dict(model.named_parameters()): name -> value
    mbuffers,   \* dict(model.named_buffers())
    sparams,    \* dict(averaged_model.named_parameters())
    sbuffers,   \* dict(averaged_model.named_buffers())
    updates,    \* the calls of ema_update made
    emaCall     \* the last call of ema_update: its outcome, its decay, the
                \* four dicts as they were when it was called, and the live
                \* model's dicts as the call left them

emaVars == <<mparams, mbuffers, sparams, sbuffers, updates, emaCall>>

VARIABLES
    dicts,      \* the heap: dict id -> dict; ids 1 and 2 are the __dict__ of
                \* the two EMAWarmup objects, id 3 is the dict state_dict built
    rec,        \* the dict the saved record r refers to (0: none taken yet)
    snap,       \* the fields of the object r was taken from, as they were then
    calls       \* per object, the step() calls since it was constructed
                \* (-1 once load_state_dict has replaced its fields)

warmupVars == <<dicts, rec, snap, calls>>

VARIABLES
    epoch_num,  \* DemoCallback.epoch_num
    demo_every, \* DemoCallback.demo_every_n_epochs
    rank,       \* the rank of the process (rank_zero_only)
    demoRng,    \* the state of the random source of the training process
    stderr,     \* the lines printed to sys.stderr: <<type name, message>>
    logged,     \* the calls the logger received: <<method, tag, value>>
    fitting,    \* whether trainer.fit is still running
    lastEnd     \* the last call of on_train_epoch_end: whether its body ran,
                \* epoch_num and the stderr length before it, whether it
                \* attempted a demo, the failure raised in it (if any) and
                \* whether it returned normally

demoVars ==
    <<epoch_num, demo_every, rank, demoRng, stderr, logged, fitting, lastEnd>>

VARIABLES
    stSteps,    \* do_style_transfer's argument steps
    noise_level,\* do_style_transfer's argument noise_level
    audio,      \* do_style_transfer's argument audio_sample
    stRng,      \* the state of the random source
    stPc,       \* "enter" | "sampling": sampling.sample has been called
    step_list,  \* the local step_list after line 306
    noisedAt,   \* the timestep whose alpha and sigma noised the sample
    noised,     \* the noised sample handed to sampling.sample
    handed      \* the timesteps handed to sampling.sample

styleVars ==
    <<stSteps, noise_level, audio, stRng, stPc, step_list, noisedAt, noised,
      handed>>

NoFirst == [xs |-> <<>>, ret |-> 0, queries |-> <<>>, rng0 |-> 0]

\* lines 28-35: the state of a call when it enters its loop
SampleEnter(n, r) ==
    /\ t = SampleSchedule(n)
    /\ alphas = SeqAlphas(SampleSchedule(n))
    /\ sigmas = SeqSigmas(SampleSchedule(n))
    /\ x = xin
    /\ pred = 0
    /\ i = 0
    /\ pc = "loop"
    /\ ret = 0
    /\ rng = r
    /\ rng0 = r
    /\ queries = <<>>
    /\ xs = <<xin>>

\* lines 38-63: one iteration of the loop
SampleIter ==
    /\ pc = "loop"
    /\ i < LoopCount(steps)
    /\ LET ti == t[i + 1]
           v == ModelFn(model, x, FMul(Scale, ti))
           p == PredOf(x, v, alphas[i + 1], sigmas[i + 1])
           eps == EpsOf(x, v, alphas[i + 1], sigmas[i + 1])
       IN  /\ queries' = Append(queries, [x |-> x, t |-> FMul(Scale, ti)])
           /\ pred' = p
           /\ IF HasNextStep(i, steps)
              THEN LET ddim == DdimSigma(eta, alphas[i + 1], sigmas[i + 1],
                                         alphas[i + 2], sigmas[i + 2])
                       adj == AdjustedSigma(sigmas[i + 2], ddim)
                       mixed == FAdd(FMul(p, alphas[i + 2]), FMul(eps, adj))
                   IN  IF AddsNoise(eta)
                       THEN /\ x' = FAdd(mixed, FMul(Randn(rng), ddim))
                            /\ rng' = RngAfterDraw(rng)
                       ELSE /\ x' = mixed
                            /\ rng' = rng
              ELSE /\ x' = x
                   /\ rng' = rng
    /\ xs' = Append(xs, x')
    /\ i' = i + 1
    /\ UNCHANGED <<steps, eta, model, xin, t, alphas, sigmas, pc, ret, rng0,
                   run, first>>
    /\ UNCHANGED <<emaVars, warmupVars, demoVars, styleVars>>

\* line 66
SampleReturn ==
    /\ pc = "loop"
    /\ i >= LoopCount(steps)
    /\ ret' = pred
    /\ pc' = "done"
    /\ UNCHANGED <<steps, eta, model, xin, t, alphas, sigmas, x, pred, i, rng,
                   rng0, queries, xs, run, first>>
    /\ UNCHANGED <<emaVars, warmupVars, demoVars, styleVars>>

\* the caller makes the same call again (same model, x, steps and eta), the
\* random source being in any state
SampleAgain ==
    /\ pc = "done"
    /\ run = 1
    /\ run' = 2
    /\ first' = [xs |-> xs, ret |-> ret, queries |-> queries, rng0 |-> rng0]
    /\ UNCHANGED <<steps, eta, model, xin>>
    /\ \E r \in RngStates :
         /\ t' = SampleSchedule(steps)
         /\ alphas' = SeqAlphas(SampleSchedule(steps))
         /\ sigmas' = SeqSigmas(SampleSchedule(steps))
         /\ x' = xin
         /\ pred' = 0
         /\ i' = 0
         /\ pc' = "loop"
         /\ ret' = 0
         /\ rng' = r
         /\ rng0' = r
         /\ queries' = <<>>
         /\ xs' = <<xin>>
    /\ UNCHANGED <<emaVars, warmupVars, demoVars, styleVars>>

\* ========================== ema_update ================================

\* the decay the training loop passes for its first epochs (line 137)
EarlyDecay == 950

DecayValues == {0, Scale \div 2, EarlyDecay, Scale}

\* the name sets a module's parameters and buffers may have
ParamNameSets == {{"weight"}, {"weight", "bias"}}

BufferNameSets == {{"running_mean"}, {"running_mean", "num_batches"}}

\* the values an optimizer step or a forward pass may leave in the live model
TrainValues == {0 - Scale, Scale \div 2}

NoCall ==
    [outcome |-> "none", decay |-> 0, mparams |-> <<>>, mbuffers |-> <<>>,
     sparams |-> <<>>, sbuffers |-> <<>>, mparamsAfter |-> <<>>,
     mbuffersAfter |-> <<>>]

\* line 40 with the two weights exchanged
BlendSwapped(avg, param, decay) ==
    FAdd(FMul(avg, FSub(Scale, decay)), FMul(param, decay))

\* line 40: averaged.mul_(decay).add_(param, alpha=1 - decay)
Blend(avg, param, decay) ==
    FAdd(FMul(avg, decay), FMul(param, FSub(Scale, decay)))

\* line 47: averaged.copy_(buf)
CopyOf(avg, buf) == buf

\* lines 37 and 44: `assert a.keys() == b.keys()`
SameKeys(a, b) == DOMAIN a = DOMAIN b

\* lines 39-40: the shadow parameters after the loop over model_params
BlendAll(avgs, params, decay) ==
    [n \in DOMAIN avgs |-> Blend(avgs[n], params[n], decay)]

\* lines 46-47: the shadow buffers after the loop over model_buffers
CopyAll(avgs, bufs) == [n \in DOMAIN avgs |-> CopyOf(avgs[n], bufs[n])]

\* lines 35-47: what a call leaves, [outcome, sparams, sbuffers]
EmaResult(mp, mb, sp, sb, decay) ==
    IF ~SameKeys(mp, sp)
    THEN [outcome |-> "AssertionError", sparams |-> sp, sbuffers |-> sb]
    ELSE IF ~SameKeys(mb, sb)
    THEN [outcome |-> "AssertionError", sparams |-> BlendAll(sp, mp, decay),
          sbuffers |-> sb]
    ELSE [outcome |-> "ok", sparams |-> BlendAll(sp, mp, decay),
          sbuffers |-> CopyAll(sb, mb)]

Running == emaCall.outcome # "AssertionError"

\* a training step: the forward pass writes the live model's buffers and the
\* optimizer step its parameters
TrainingStep ==
    /\ Running
    /\ \E v \in TrainValues :
         /\ mparams' = [n \in DOMAIN mparams |->
                          IF n = "weight" THEN v ELSE 0 - v]
         /\ mbuffers' = [n \in DOMAIN mbuffers |->
                          IF n = "running_mean" THEN v \div 2 ELSE v \div 4]
    /\ UNCHANGED <<sparams, sbuffers, updates, emaCall>>
    /\ UNCHANGED <<sampleVars, warmupVars, demoVars, styleVars>>

\* lines 32-47: ema_update(model, averaged_model, decay)
EmaUpdate ==
    /\ Running
    /\ updates < MaxUpdates
    /\ UNCHANGED <<mparams, mbuffers>>
    /\ \E decay \in DecayValues :
         LET r == EmaResult(mparams, mbuffers, sparams, sbuffers, decay)
         IN  /\ sparams' = r.sparams
             /\ sbuffers' = r.sbuffers
             /\ emaCall' = [outcome |-> r.outcome, decay |-> decay,
                            mparams |-> mparams, mbuffers |-> mbuffers,
                            sparams |-> sparams, sbuffers |-> sbuffers,
                            mparamsAfter |-> mparams',
                            mbuffersAfter |-> mbuffers']
    /\ updates' = updates + 1
    /\ UNCHANGED <<sampleVars, warmupVars, demoVars, styleVars>>

\* ============================ EMAWarmup ===============================

Objects == {1, 2}

Max(a, b) == IF a >= b THEN a ELSE b

Min(a, b) == IF a <= b THEN a ELSE b

RECURSIVE IntPow(_, _)
\* b ** n for an integer n >= 0
IntPow(b, n) == IF n = 0 THEN Scale ELSE FMul(b, IntPow(b, n - 1))

\* b ** p for p >= 0 a multiple of one half
FPow(b, p) ==
    LET halves == (2 * p) \div Scale
        whole == IntPow(b, halves \div 2)
    IN  IF halves % 2 = 0 THEN whole ELSE FMul(whole, FSqrt(b))

\* b ** -p
FPowNeg(b, p) == FDiv(Scale, FPow(b, p))

\* line 89 with the difference reversed
EpochOfReversed(d) == Max(0, d.start_at - d.last_epoch)

\* line 89
EpochOf(d) == Max(0, d.last_epoch - d.start_at)

\* line 90 without `1 -`
RawValueNoComplement(d) ==
    FPowNeg(FAdd(Scale, FDiv(EpochOf(d) * Scale, d.inv_gamma)), d.power)

\* line 90
RawValue(d) ==
    FSub(Scale,
         FPowNeg(FAdd(Scale, FDiv(EpochOf(d) * Scale, d.inv_gamma)), d.power))

\* lines 87-91: get_value() of an object whose __dict__ is d
get_value(d) ==
    IF EpochOf(d) < 0 THEN 0
    ELSE Min(d.max_value, Max(d.min_value, RawValue(d)))

\* line 95: the __dict__ after step()
step(d) == [d EXCEPT !.last_epoch = d.last_epoch + 1]

\* dict(a.items()): a new dict with a's items
DictCopy(a) == [k \in DOMAIN a |-> a[k]]

\* a.update(b)
DictUpdate(a, b) ==
    [k \in (DOMAIN a) \cup (DOMAIN b) |-> IF k \in DOMAIN b THEN b[k] ELSE a[k]]

\* line 77 returning self.__dict__ itself
state_dict_alias(h, o) == [heap |-> h, id |-> o]

\* line 77: state_dict() of object o in heap h: the heap after it and the id
\* of the dict it returns
state_dict(h, o) ==
    [heap |-> [k \in (DOMAIN h) \cup {3} |->
                 IF k = 3 THEN DictCopy(h[o]) ELSE h[k]],
     id |-> 3]

\* line 85: the heap after load_state_dict(r) on object o
load_state_dict(h, o, r) == [h EXCEPT ![o] = DictUpdate(h[o], h[r])]

\* the configurations an EMAWarmup is constructed with (lines 66-73)
InvGammaValues == {Scale, 2 * Scale}

PowerValues == {Scale \div 2, Scale, 2 * Scale}

ClampValues == {<<0, Scale>>, <<Scale \div 4, (9 * Scale) \div 10>>}

StartValues == {0, 3}

NewWarmup(g, p, lo, hi, s, e) ==
    [inv_gamma |-> g, power |-> p, min_value |-> lo, max_value |-> hi,
     start_at |-> s, last_epoch |-> e]

\* EMAWarmup() with the defaults of lines 66-67
DefaultWarmup == NewWarmup(Scale, Scale, 0, Scale, 0, 0)

\* =========================== DemoCallback =============================

\* DemoCallback.demo_every_n_epochs
DemoEveryValues == 1..3

\* the ranks of the training processes
Ranks == {0, 1}

\* module.diffusion_ema, the model a demo samples from
DemoModel == "echo"

\* where a demo can fail: creating the noise (line 160), sample (line 162),
\* rearrange (line 165), add_audio (line 166), add_image (line 168)
DemoStages == {"noise", "sample", "rearrange", "add_audio", "add_image"}

\* the statements of the try block (lines 162-168)
TryStages == {"sample", "rearrange", "add_audio", "add_image"}

\* what can be raised: two subclasses of Exception, and KeyboardInterrupt,
\* which is a BaseException only
ExceptionClasses == {"RuntimeError", "ValueError"}

RaisedClasses == ExceptionClasses \cup {"KeyboardInterrupt"}

Messages == {"out of memory", "bad shape"}

NoFault == [stage |-> "none", kind |-> "none", msg |-> "none"]

Faults ==
    {NoFault} \cup [stage : DemoStages, kind : RaisedClasses, msg : Messages]

\* line 170 catching one class only
CaughtRuntimeOnly(kind) == kind = "RuntimeError"

\* line 170: `except Exception as e`
Caught(kind) == kind \in ExceptionClasses

\* line 159
DemoDue(e, n) == e % n = 0

\* lines 171 and 142: print(f'{type(e).__name__}: {e}', file=sys.stderr)
ErrLine(kind, msg) == <<kind, ": ", msg>>

RECURSIVE DemoSampleFrom(_, _, _, _, _, _)
\* iterations k.. of sample(model, x, n, 0) (lines 38-66 with eta = 0)
DemoSampleFrom(kind, xv, k, n, al, sg) ==
    LET v == ModelFn(kind, xv, FMul(Scale, SampleSchedule(n)[k + 1]))
        p == PredOf(xv, v, al[k + 1], sg[k + 1])
        eps == EpsOf(xv, v, al[k + 1], sg[k + 1])
    IN  IF HasNextStep(k, n)
        THEN LET ddim == DdimSigma(0, al[k + 1], sg[k + 1], al[k + 2], sg[k + 2])
                 adj == AdjustedSigma(sg[k + 2], ddim)
             IN  DemoSampleFrom(kind, FAdd(FMul(p, al[k + 2]), FMul(eps, adj)),
                                k + 1, n, al, sg)
        ELSE p

\* line 162: sample(module.diffusion_ema, noise, self.demo_steps, 0)
DemoSample(kind, noise, n) ==
    DemoSampleFrom(kind, noise, 0, n, SeqAlphas(SampleSchedule(n)),
                   SeqSigmas(SampleSchedule(n)))

\* lines 166-168: the logger calls a try block made before `stage` failed
LoggedBefore(stage, fakes) ==
    CASE stage \in {"sample", "rearrange", "add_audio"} -> <<>>
      [] stage = "add_image" -> <<<<"add_audio", "audio_val", fakes>>>>
      [] OTHER -> << <<"add_audio", "audio_val", fakes>>,
                     <<"add_image", "audio_specgram", fakes>> >>

NoEnd ==
    [ran |-> FALSE, epochBefore |-> 0, errBefore |-> 0, attempted |-> FALSE,
     fault |-> NoFault, returned |-> TRUE]

\* lines 155-171: on_train_epoch_end(trainer, module), `fault` being what
\* goes wrong in it; an exception that leaves it ends trainer.fit, after
\* ExceptionCallback.on_exception (lines 140-142) has printed it
OnTrainEpochEnd(fault) ==
    /\ fitting
    /\ epoch_num < MaxDemoEpochs
    /\ UNCHANGED <<demo_every, rank>>
    /\ IF rank # 0
       THEN /\ lastEnd' = [NoEnd EXCEPT !.epochBefore = epoch_num,
                                        !.errBefore = Len(stderr)]
            /\ UNCHANGED <<epoch_num, demoRng, stderr, logged, fitting>>
       ELSE /\ epoch_num' = epoch_num + 1
            /\ IF ~DemoDue(epoch_num + 1, demo_every)
               THEN /\ lastEnd' = [ran |-> TRUE, epochBefore |-> epoch_num,
                                   errBefore |-> Len(stderr),
                                   attempted |-> FALSE, fault |-> NoFault,
                                   returned |-> TRUE]
                    /\ UNCHANGED <<demoRng, stderr, logged, fitting>>
               ELSE LET fakes == DemoSample(DemoModel, Randn(demoRng), DemoSteps)
                        escapes == \/ fault.stage = "noise"
                                   \/ /\ fault.stage \in TryStages
                                      /\ ~Caught(fault.kind)
                    IN  /\ demoRng' = RngAfterDraw(demoRng)
                        /\ logged' = IF fault.stage = "noise" THEN logged
                                     ELSE logged \o LoggedBefore(fault.stage, fakes)
                        /\ stderr' = IF fault = NoFault THEN stderr
                                     ELSE Append(stderr,
                                                 ErrLine(fault.kind, fault.msg))
                        /\ fitting' = ~escapes
                        /\ lastEnd' = [ran |-> TRUE, epochBefore |-> epoch_num,
                                       errBefore |-> Len(stderr),
                                       attempted |-> TRUE, fault |-> fault,
                                       returned |-> ~escapes]

EpochEnd ==
    /\ \E fault \in Faults : OnTrainEpochEnd(fault)
    /\ UNCHANGED <<sampleVars, emaVars, warmupVars, styleVars>>

\* ========================= do_style_transfer ==========================

\* s.flip(0)
Flip(s) == [k \in 1..Len(s) |-> s[Len(s) + 1 - k]]

\* line 304: torch.linspace(0, 1, steps + 1)
StyleGrid(n) == Linspace(0, Scale, n + 1)

\* line 305
StyleSchedule(n) ==
    LET g == StyleGrid(n) IN [k \in 1..Len(g) |-> get_crash_schedule(g[k])]

\* line 306: step_list[step_list < noise_level]
Below(s, level) == SelectSeq(s, LAMBDA v : v < level)

\* line 314 without the flip
HandedUnflipped(s) == DropLast(s)

\* line 314: step_list.flip(0)[:-1]
Handed(s) == DropLast(Flip(s))

\* the arguments of do_style_transfer that are explored
NoiseLevels ==
    {(k * Scale) \div 10 : k \in 1..10}
        \cup {1, get_crash_schedule(Scale \div 2)}

AudioValues == {0 - Scale, Scale \div 2, 2 * Scale}

\* lines 304-314: do_style_transfer up to its call of sampling.sample
StyleTransfer ==
    /\ stPc = "enter"
    /\ LET sl == Below(StyleSchedule(stSteps), noise_level)
       IN  IF Len(sl) = 0
           THEN /\ stPc' = "IndexError"
                /\ step_list' = sl
                /\ UNCHANGED <<noisedAt, noised, handed, stRng>>
           ELSE LET as == t_to_alpha_sigma(sl[Len(sl)])
                IN  /\ step_list' = sl
                    /\ noisedAt' = sl[Len(sl)]
                    /\ noised' = FAdd(FMul(audio, as.alpha),
                                      FMul(Randn(stRng), as.sigma))
                    /\ stRng' = RngAfterDraw(stRng)
                    /\ handed' = Handed(sl)
                    /\ stPc' = "sampling"
    /\ UNCHANGED <<stSteps, noise_level, audio>>
    /\ UNCHANGED <<sampleVars, emaVars, warmupVars, demoVars>>

\* ========================== specifications ============================

\* a specification explores one part of the program; the others stay idle

InitSample ==
    /\ steps \in StepsValues
    /\ eta \in EtaValues
    /\ model \in ModelKinds
    /\ xin \in XValues
    /\ run = 1
    /\ first = NoFirst
    /\ \E r \in RngStates : SampleEnter(steps, r)
    /\ mparams = <<>> /\ mbuffers = <<>> /\ sparams = <<>> /\ sbuffers = <<>>
    /\ updates = 0
    /\ emaCall = NoCall
    /\ dicts = <<>> /\ rec = 0 /\ snap = <<>> /\ calls = <<>>
    /\ epoch_num = 0 /\ demo_every = 1 /\ rank = 0 /\ demoRng = 0
    /\ stderr = <<>> /\ logged = <<>> /\ fitting = FALSE /\ lastEnd = NoEnd
    /\ stSteps = 1 /\ noise_level = Scale /\ audio = 0 /\ stRng = 0
    /\ stPc = "idle" /\ step_list = <<>> /\ noisedAt = 0 /\ noised = 0
    /\ handed = <<>>

\* the shadow is created as a copy of a module (deepcopy); here its names may
\* differ from the live model's, as ema_update is handed any two modules
InitEma ==
    /\ \E pn \in ParamNameSets : mparams = [n \in pn |-> Scale]
    /\ \E bn \in BufferNameSets : mbuffers = [n \in bn |-> 0]
    /\ \E pn \in ParamNameSets : sparams = [n \in pn |-> Scale]
    /\ \E bn \in BufferNameSets : sbuffers = [n \in bn |-> 0]
    /\ updates = 0
    /\ emaCall = NoCall
    /\ steps = 1 /\ eta = 0 /\ model = "zero" /\ xin = 0
    /\ t = <<>> /\ alphas = <<>> /\ sigmas = <<>>
    /\ x = 0 /\ pred = 0 /\ i = 0 /\ pc = "idle" /\ ret = 0
    /\ rng = 0 /\ rng0 = 0 /\ queries = <<>> /\ xs = <<>>
    /\ run = 1 /\ first = NoFirst
    /\ dicts = <<>> /\ rec = 0 /\ snap = <<>> /\ calls = <<>>
    /\ epoch_num = 0 /\ demo_every = 1 /\ rank = 0 /\ demoRng = 0
    /\ stderr = <<>> /\ logged = <<>> /\ fitting = FALSE /\ lastEnd = NoEnd
    /\ stSteps = 1 /\ noise_level = Scale /\ audio = 0 /\ stRng = 0
    /\ stPc = "idle" /\ step_list = <<>> /\ noisedAt = 0 /\ noised = 0
    /\ handed = <<>>

\* two EMAWarmup objects: one constructed with any of the configurations,
\* one with the defaults
InitWarmup ==
    /\ \E g \in InvGammaValues, p \in PowerValues, c \in ClampValues,
          s \in StartValues :
         dicts = <<NewWarmup(g, p, c[1], c[2], s, 0), DefaultWarmup>>
    /\ rec = 0
    /\ snap = <<>>
    /\ calls = <<0, 0>>
    /\ steps = 1 /\ eta = 0 /\ model = "zero" /\ xin = 0
    /\ t = <<>> /\ alphas = <<>> /\ sigmas = <<>>
    /\ x = 0 /\ pred = 0 /\ i = 0 /\ pc = "idle" /\ ret = 0
    /\ rng = 0 /\ rng0 = 0 /\ queries = <<>> /\ xs = <<>>
    /\ run = 1 /\ first = NoFirst
    /\ mparams = <<>> /\ mbuffers = <<>> /\ sparams = <<>> /\ sbuffers = <<>>
    /\ updates = 0
    /\ emaCall = NoCall
    /\ epoch_num = 0 /\ demo_every = 1 /\ rank = 0 /\ demoRng = 0
    /\ stderr = <<>> /\ logged = <<>> /\ fitting = FALSE /\ lastEnd = NoEnd
    /\ stSteps = 1 /\ noise_level = Scale /\ audio = 0 /\ stRng = 0
    /\ stPc = "idle" /\ step_list = <<>> /\ noisedAt = 0 /\ noised = 0
    /\ handed = <<>>

\* a training process at rank 0 or 1, its DemoCallback just constructed
\* (lines 146-153)
InitDemo ==
    /\ epoch_num = 0
    /\ demo_every \in DemoEveryValues
    /\ rank \in Ranks
    /\ demoRng \in RngStates
    /\ stderr = <<>>
    /\ logged = <<>>
    /\ fitting = TRUE
    /\ lastEnd = NoEnd
    /\ steps = 1 /\ eta = 0 /\ model = "zero" /\ xin = 0
    /\ t = <<>> /\ alphas = <<>> /\ sigmas = <<>>
    /\ x = 0 /\ pred = 0 /\ i = 0 /\ pc = "idle" /\ ret = 0
    /\ rng = 0 /\ rng0 = 0 /\ queries = <<>> /\ xs = <<>>
    /\ run = 1 /\ first = NoFirst
    /\ mparams = <<>> /\ mbuffers = <<>> /\ sparams = <<>> /\ sbuffers = <<>>
    /\ updates = 0
    /\ emaCall = NoCall
    /\ dicts = <<>> /\ rec = 0 /\ snap = <<>> /\ calls = <<>>
    /\ stSteps = 1 /\ noise_level = Scale /\ audio = 0 /\ stRng = 0
    /\ stPc = "idle" /\ step_list = <<>> /\ noisedAt = 0 /\ noised = 0
    /\ handed = <<>>

\* a call of do_style_transfer with steps >= 1 and noise_level in (0, 1]
InitStyle ==
    /\ stSteps \in StepsValues
    /\ noise_level \in NoiseLevels
    /\ audio \in AudioValues
    /\ stRng \in RngStates
    /\ stPc = "enter"
    /\ step_list = <<>>
    /\ noisedAt = 0
    /\ noised = 0
    /\ handed = <<>>
    /\ steps = 1 /\ eta = 0 /\ model = "zero" /\ xin = 0
    /\ t = <<>> /\ alphas = <<>> /\ sigmas = <<>>
    /\ x = 0 /\ pred = 0 /\ i = 0 /\ pc = "idle" /\ ret = 0
    /\ rng = 0 /\ rng0 = 0 /\ queries = <<>> /\ xs = <<>>
    /\ run = 1 /\ first = NoFirst
    /\ mparams = <<>> /\ mbuffers = <<>> /\ sparams = <<>> /\ sbuffers = <<>>
    /\ updates = 0
    /\ emaCall = NoCall
    /\ dicts = <<>> /\ rec = 0 /\ snap = <<>> /\ calls = <<>>
    /\ epoch_num = 0 /\ demo_every = 1 /\ rank = 0 /\ demoRng = 0
    /\ stderr = <<>> /\ logged = <<>> /\ fitting = FALSE /\ lastEnd = NoEnd

\* lines 93-95: o.step()
Step(o) ==
    /\ dicts[o].last_epoch < MaxEpoch
    /\ dicts' = [dicts EXCEPT ![o] = step(dicts[o])]
    /\ calls' = [calls EXCEPT ![o] = IF calls[o] < 0 THEN calls[o]
                                     ELSE calls[o] + 1]
    /\ UNCHANGED <<rec, snap>>
    /\ UNCHANGED <<sampleVars, emaVars, demoVars, styleVars>>

\* lines 75-77: r = o.state_dict()
StateDict(o) ==
    /\ LET r == state_dict(dicts, o)
       IN  /\ dicts' = r.heap
           /\ rec' = r.id
    /\ snap' = dicts[o]
    /\ UNCHANGED calls
    /\ UNCHANGED <<sampleVars, emaVars, demoVars, styleVars>>

\* lines 79-85: o.load_state_dict(r)
LoadStateDict(o) ==
    /\ rec # 0
    /\ dicts' = load_state_dict(dicts, o, rec)
    /\ calls' = [calls EXCEPT ![o] = 0 - 1]
    /\ UNCHANGED <<rec, snap>>
    /\ UNCHANGED <<sampleVars, emaVars, demoVars, styleVars>>

WarmupStep == \E o \in Objects : Step(o)

WarmupSave == \E o \in Objects : StateDict(o)

WarmupLoad == \E o \in Objects : LoadStateDict(o)

vars == <<sampleVars, emaVars, warmupVars, demoVars, styleVars>>

NextSample == SampleIter \/ SampleReturn \/ SampleAgain

SpecSample == InitSample /\ [][NextSample]_vars

NextEma == TrainingStep \/ EmaUpdate

SpecEma == InitEma /\ [][NextEma]_vars

NextWarmup == WarmupStep \/ WarmupSave \/ WarmupLoad

SpecWarmup == InitWarmup /\ [][NextWarmup]_vars

NextDemo == EpochEnd

SpecDemo == InitDemo /\ [][NextDemo]_vars

NextStyle == StyleTransfer

SpecStyle == InitStyle /\ [][NextStyle]_vars

\* ============================== claims ================================

\* C1: sample queries the model exactly `steps` times, the k-th query (in
\* order) at the k-th timestep of the working schedule and with the x the
\* iteration before it produced (the caller's x for the first); it returns
\* the pred of the last iteration, computed from the last query alone.
C1_StepsQueriesThenPred ==
    pc \in {"loop", "done"} =>
        /\ Len(queries) = i
        /\ i <= steps
        /\ Len(xs) = i + 1
        /\ xs[1] = xin
        /\ \A k \in 1..Len(queries) :
             /\ queries[k].t = t[k]
             /\ queries[k].x = xs[k]
        /\ pc = "done" =>
             /\ Len(queries) = steps
             /\ LET q == queries[steps]
                    v == ModelFn(model, q.x, q.t)
                IN  ret = FSub(FMul(q.x, alphas[steps]), FMul(v, sigmas[steps]))

\* a call of three steps or more with eta > 0 has returned
C1_Witness ==
    pc = "done" /\ steps >= 3 /\ eta # 0 /\ Len(queries) = steps /\ ret # 0

\* C2: the working schedule has exactly `steps` entries, is strictly
\* decreasing, starts at 1 and holds no 0; no sigma[i] is 0 and no alpha[i+1]
\* (i+1 >= 1) is 0, so no iteration divides by zero.
C2_ScheduleHasNoZero ==
    pc \in {"loop", "done"} =>
        /\ Len(t) = steps
        /\ Len(alphas) = steps
        /\ Len(sigmas) = steps
        /\ t[1] = Scale
        /\ \A k \in 1..Len(t) : t[k] # NaN /\ t[k] > 0
        /\ \A k \in 1..(Len(t) - 1) : t[k] > t[k + 1]
        /\ \A k \in 1..Len(sigmas) : sigmas[k] # NaN /\ sigmas[k] # 0
        /\ \A k \in 2..Len(alphas) : alphas[k] # NaN /\ alphas[k] # 0
        /\ x # NaN

\* a recombination with eta > 0 (the divisions of lines 53-54) has run
C2_Witness ==
    pc = "loop" /\ steps >= 3 /\ eta # 0 /\ i >= 2 /\ x # xin

\* C3: with eta = 0 sample leaves the random source as it found it, and the
\* same call made again, the random source in any state, goes through the
\* same x values and returns the same output.
C3_EtaZeroIsDeterministic ==
    (pc \in {"loop", "done"} /\ eta = 0) =>
        /\ rng = rng0
        /\ run = 2 =>
             /\ \A k \in 1..Len(xs) : xs[k] = first.xs[k]
             /\ \A k \in 1..Len(queries) : queries[k] = first.queries[k]
             /\ pc = "done" => ret = first.ret

\* the second of two calls with eta = 0, made with the random source in
\* another state, has returned
C3_Witness ==
    /\ pc = "done" /\ run = 2 /\ eta = 0 /\ steps >= 2
    /\ rng0 # first.rng0 /\ ret # 0

\* C4: with steps = 1 sample queries the model once, at t = 1 with the
\* caller's x, and returns x*alpha[0] - v*sigma[0] of that query whatever
\* eta is; it draws no noise.
C4_SingleStep ==
    (pc = "done" /\ steps = 1) =>
        /\ Len(queries) = 1
        /\ queries[1] = [x |-> xin, t |-> Scale]
        /\ ret = FSub(FMul(xin, alphas[1]),
                      FMul(ModelFn(model, xin, Scale), sigmas[1]))
        /\ rng = rng0
        /\ x = xin

\* a call with steps = 1 and eta > 0 has returned a value that is not 0
C4_Witness ==
    pc = "done" /\ steps = 1 /\ eta # 0 /\ model = "echo" /\ ret # 0

\* C5: a call of ema_update that fails its assertion leaves every shadow
\* parameter and every shadow buffer as it was before the call.
C5_FailedUpdateChangesNothing ==
    emaCall.outcome = "AssertionError" =>
        /\ sparams = emaCall.sparams
        /\ sbuffers = emaCall.sbuffers

\* C6: after a successful ema_update every shadow parameter is
\* old_shadow*decay + model*(1-decay) and every shadow buffer is the model's;
\* decay = 1 leaves the shadow parameters, decay = 0 makes them the model's;
\* the live model is not modified.
C6_EmaIdentities ==
    emaCall.outcome = "ok" =>
        /\ DOMAIN sparams = DOMAIN emaCall.sparams
        /\ \A n \in DOMAIN sparams :
             sparams[n] = FMul(emaCall.sparams[n], emaCall.decay)
                          + FMul(emaCall.mparams[n], Scale - emaCall.decay)
        /\ emaCall.decay = Scale => sparams = emaCall.sparams
        /\ emaCall.decay = 0 => sparams = emaCall.mparams
        /\ sbuffers = emaCall.mbuffers
        /\ emaCall.mparamsAfter = emaCall.mparams
        /\ emaCall.mbuffersAfter = emaCall.mbuffers

\* a successful call with decay 1/2 has moved the shadow parameters and
\* overwritten the shadow buffers
C6_Witness ==
    /\ emaCall.outcome = "ok"
    /\ emaCall.decay = Scale \div 2
    /\ sparams # emaCall.sparams
    /\ sparams # emaCall.mparams
    /\ sbuffers # emaCall.sbuffers

\* C7: for every configuration, get_value() is 0 while last_epoch < start_at.
C7_ZeroBeforeStart ==
    \A o \in Objects :
        (o \in DOMAIN dicts /\ dicts[o].last_epoch < dicts[o].start_at) =>
            get_value(dicts[o]) = 0

\* the configurations C8 is about
Sound(d) == d.inv_gamma > 0 /\ d.power > 0 /\ d.min_value <= d.max_value

\* C8: with inv_gamma > 0, power > 0 and min_value <= max_value, a step()
\* taken at last_epoch >= start_at does not decrease get_value(), which lies
\* in [min_value, max_value]; step() adds 1 to last_epoch and changes nothing
\* else.
C8_StepIsMonotone ==
    /\ [][\A o \in Objects : Step(o) =>
            /\ dicts'[o] = [dicts[o] EXCEPT !.last_epoch = dicts[o].last_epoch + 1]
            /\ \A k \in DOMAIN dicts : k # o => dicts'[k] = dicts[k]
            /\ DOMAIN dicts' = DOMAIN dicts
            /\ (Sound(dicts[o]) /\ dicts[o].last_epoch >= dicts[o].start_at) =>
                 get_value(dicts'[o]) >= get_value(dicts[o])]_vars
    /\ [](\A o \in Objects :
            (o \in DOMAIN dicts /\ Sound(dicts[o])
             /\ dicts[o].last_epoch >= dicts[o].start_at) =>
                /\ dicts[o].min_value <= get_value(dicts[o])
                /\ get_value(dicts[o]) <= dicts[o].max_value)

\* an object stepped twice or more past start_at, whose value rose at its
\* last step and is strictly inside its range
C8_Witness ==
    \E o \in Objects :
        /\ o \in DOMAIN dicts
        /\ calls[o] >= 2
        /\ dicts[o].last_epoch >= dicts[o].start_at + 2
        /\ get_value(dicts[o]) >
             get_value([dicts[o] EXCEPT !.last_epoch = dicts[o].last_epoch - 1])
        /\ dicts[o].min_value < get_value(dicts[o])
        /\ get_value(dicts[o]) < dicts[o].max_value
        /\ dicts[o].min_value > 0

\* C9: an EMAWarmup constructed with inv_gamma=1, power=1, min_value=0,
\* max_value=1, start_at=0, last_epoch=0 has, after k calls of step(), the
\* value k/(k+1) (here: to the resolution 1/Scale, rounded up); after 9 it is
\* 0.9.
C9_SimpleAverage ==
    \A o \in Objects :
        (/\ o \in DOMAIN dicts
         /\ calls[o] >= 0
         /\ dicts[o].inv_gamma = Scale /\ dicts[o].power = Scale
         /\ dicts[o].min_value = 0 /\ dicts[o].max_value = Scale
         /\ dicts[o].start_at = 0) =>
            LET k == calls[o]
                v == get_value(dicts[o])
            IN  /\ dicts[o].last_epoch = k
                /\ v * (k + 1) >= k * Scale
                /\ (v - 1) * (k + 1) < k * Scale
                /\ k = 9 => 10 * v = 9 * Scale

\* the default EMAWarmup after 9 steps, its value 0.9
C9_Witness ==
    /\ DOMAIN dicts = {1, 2}
    /\ calls[2] = 9
    /\ dicts[2] = [DefaultWarmup EXCEPT !.last_epoch = 9]
    /\ 10 * get_value(dicts[2]) = 9 * Scale

\* C10: the record state_dict() returned stays as it was taken whatever
\* step() calls follow, and load_state_dict of it (on the same or the other
\* object) leaves that object with the six fields of the snapshot, so with
\* its get_value() and its step().
C10_CheckpointRoundTrip ==
    /\ [](rec # 0 => (rec \in DOMAIN dicts /\ dicts[rec] = snap))
    /\ [][\A o \in Objects : LoadStateDict(o) =>
            /\ dicts'[o].inv_gamma = snap.inv_gamma
            /\ dicts'[o].power = snap.power
            /\ dicts'[o].min_value = snap.min_value
            /\ dicts'[o].max_value = snap.max_value
            /\ dicts'[o].start_at = snap.start_at
            /\ dicts'[o].last_epoch = snap.last_epoch
            /\ DOMAIN dicts'[o] = DOMAIN snap
            /\ get_value(dicts'[o]) = get_value(snap)
            /\ step(dicts'[o]) = step(snap)]_vars

\* a record taken from object 1, which was stepped afterwards, has been
\* loaded into object 2
C10_Witness ==
    /\ rec # 0
    /\ calls[2] = 0 - 1
    /\ dicts[2] = snap
    /\ snap.start_at # 0
    /\ snap.last_epoch >= 1
    /\ dicts[1].last_epoch > snap.last_epoch
    /\ dicts[rec] = snap

\* C11: on_train_epoch_end attempts a demo exactly when the incremented
\* epoch_num is a multiple of demo_every_n_epochs, and an exception raised
\* by the sampling of the demo or by the logging of its result is caught:
\* it is printed as its type name and message, the callback returns
\* normally, training goes on and epoch_num has advanced by exactly 1.
C11_DemoFailureIsContained ==
    lastEnd.ran =>
        /\ epoch_num = lastEnd.epochBefore + 1
        /\ lastEnd.attempted <=> ((lastEnd.epochBefore + 1) % demo_every = 0)
        /\ ( /\ lastEnd.attempted
             /\ lastEnd.fault.stage \in
                    {"sample", "rearrange", "add_audio", "add_image"}
             /\ lastEnd.fault.kind \in {"RuntimeError", "ValueError"} )
           => /\ lastEnd.returned
              /\ fitting
              /\ Len(stderr) = lastEnd.errBefore + 1
              /\ stderr[Len(stderr)] =
                     <<lastEnd.fault.kind, ": ", lastEnd.fault.msg>>

C11_Witness ==
    /\ lastEnd.ran
    /\ lastEnd.attempted
    /\ lastEnd.fault.stage = "add_image"
    /\ lastEnd.fault.kind = "ValueError"
    /\ lastEnd.returned
    /\ fitting
    /\ epoch_num >= 2
    /\ Len(logged) >= 1
    /\ Len(stderr) >= 2

\* C12: for steps >= 1 and noise_level in (0, 1], the timesteps handed by
\* do_style_transfer to the stepping loop are strictly decreasing, none of
\* them is 0, there are at most `steps` of them and, when there is one, the
\* first is the timestep at which the sample was noised, which is the
\* largest warped grid value below noise_level.
C12_HandedTimesteps ==
    stPc = "sampling" =>
        /\ \A k \in 1..(Len(handed) - 1) : handed[k] > handed[k + 1]
        /\ \A k \in 1..Len(handed) : handed[k] # 0 /\ handed[k] # NaN
        /\ Len(handed) <= stSteps
        /\ Len(handed) > 0 => handed[1] = noisedAt
        /\ noisedAt < noise_level
        /\ \A k \in 1..(stSteps + 1) :
               LET v == get_crash_schedule(Linspace(0, Scale, stSteps + 1)[k])
               IN  v < noise_level => v <= noisedAt
        /\ \E k \in 1..(stSteps + 1) :
               noisedAt = get_crash_schedule(Linspace(0, Scale, stSteps + 1)[k])

C12_Witness ==
    /\ stPc = "sampling"
    /\ stSteps = MaxSteps
    /\ noise_level < Scale
    /\ Len(handed) >= 2
    /\ Len(handed) < stSteps
    /\ handed[1] = noisedAt
    /\ noised # audio


=============================================================================
